---- MODULE Spec2Model ----
(***************************************************************************)
(* Model of the order allocation protocol of the tickets service:         *)
(*   GRPCHandler.CreateOrder  -> OrderService.CreateOrder                  *)
(*     -> BaseRepository.WithTransaction                                   *)
(*          ConcertSessionRepository.GetConcertSessionByID                 *)
(*          TicketRepository.GetAvailableTicketsBySessionID                *)
(*          OrderRepository.CreateOrder                                    *)
(*          TicketRepository.UpdateTicketStatuses                          *)
(* against a PostgreSQL store (READ COMMITTED, row locks held by the       *)
(* transaction that took them until it commits or rolls back).             *)
(*                                                                         *)
(* Money is kept in integer cents (DECIMAL(10,2) columns, shopspring       *)
(* decimal in the service); ticket UUIDs are modelled by their rank in    *)
(* the ORDER BY id ordering.                                               *)
(***************************************************************************)
EXTENDS Integers, Sequences, FiniteSets, TLC

\* ---------------------------------------------------------------- bounds
NumCalls == 2          \* concurrent CreateOrder calls
NumTickets == 4        \* provisioned ticket rows
MaxFaults == 1         \* storage failures (begin, query, insert, update, commit) in one run
NumMigrations == 3     \* migration versions
MaxCommands == 2       \* migrate commands run one after the other
MaxFiles == 3          \* entries of the migrations directory
MaxTransactions == 2   \* units of work run one after the other by one caller of the ticket repository

\* ------------------------------------------------------ program constants
MaxTicketsPerOrder == 3

Calls == 1..NumCalls
TicketIDs == 1..NumTickets

\* request field values offered to the handler
UserIDs == {-1, 0, 1}
SessionIDs == {-1, 0, 1, 2, 3}
Quantities == {-1, 0, 1, 2, 3, 4}

\* every request, well-formed or not
AnyRequest == [user_id : UserIDs, concert_session_id : SessionIDs, number_of_tickets : Quantities]

\* the well-formed requests: sessions 1 and 2 exist, session 3 does not
Requests == [user_id : {1}, concert_session_id : {1, 2, 3}, number_of_tickets : 1..3]

\* the error of a failed storage operation (driver error, mapped by no case of the handler)
StorageError == "storage error"

\* the error of a failed r.db.Beginx()
BeginError == "begin failed"

\* the error of a failed tx.Commit()
CommitError == "commit failed"

\* the errors that come from the store
StorageErrors == {BeginError, StorageError, CommitError}

\* zero values of the Go locals
NoRequest == [user_id |-> 0, concert_session_id |-> 0, number_of_tickets |-> 0]
NoSession == [id |-> 0, price |-> 0]
NoOrder == [id |-> 0, created_at |-> 0, status |-> "", total_price |-> 0]
NoResponse == [order_id |-> 0, status |-> "", ticket_ids |-> <<>>, total_price |-> 0, created_at |-> 0]

\* provisioning: ticket 2 belongs to session 2, every other ticket to session 1
SessionOfTicket(t) == IF t = 2 THEN 2 ELSE 1

VARIABLES
  db_sessions,      \* table concert_sessions (id, price in cents)
  db_tickets,       \* table tickets, committed version: id -> (session_id, status)
  db_orders,        \* table orders, committed rows
  orderSeq,         \* orders_id_seq (not transactional)
  dbClock,          \* clock of the store, read by the created_at default
  rowLock,          \* tickets row lock: id -> call whose transaction holds it, 0 if free
  txOpen,           \* call -> its transaction is open
  txOrders,         \* call -> order rows inserted by its open transaction
  txTickets,        \* call -> ticket id -> status written by its open transaction ("" if none)
  committedWrites,  \* history of committed writes: <<call, table, key>>
  pc,               \* call -> position in CreateOrder
  via,              \* call -> entry point: "grpc" (GRPCHandler.CreateOrder) or "service"
  req,              \* call -> request
  concertSession,   \* call -> local concertSession
  tickets,          \* call -> local tickets
  order,            \* call -> local order
  updIdx,           \* call -> loop index of UpdateTicketStatuses
  err,              \* call -> error returned by the service ("" if none)
  code,             \* call -> gRPC status code of the finished call
  resp,             \* call -> response of the finished call
  touched,          \* call -> the call has reached the store
  faults,           \* storage failures so far
  ctx,              \* call -> state of the caller's context: "active" or "cancelled"
  migrations,       \* mm.migrations: the loaded migrations (their versions), as sorted by LoadMigrations
  schema_migrations,\* table schema_migrations, committed rows (version, dirty, applied_at)
  schemaLog,        \* the committed executions of migration SQL, in order: <<"up" or "down", version>>
  mig,              \* migrate process -> its command and its position in MigrateUp / MigrateDown
  directory,        \* the entries of the migrations directory: (name, dir)
  loader,           \* LoadMigrations: its position, the entries left, the list it builds
  repo              \* caller of the ticket repository -> its unit of work around UpdateTicketStatuses

vars == <<db_sessions, db_tickets, db_orders, orderSeq, dbClock, rowLock, txOpen,
          txOrders, txTickets, committedWrites, pc, via, req, concertSession, tickets, order,
          updIdx, err, code, resp, touched, faults, ctx,
          migrations, schema_migrations, schemaLog, mig, directory, loader, repo>>

dbVars == <<db_sessions, db_tickets, db_orders, orderSeq, dbClock, rowLock, txOpen,
            txOrders, txTickets, committedWrites>>

localVars == <<concertSession, tickets, order, updIdx>>

\* the variables of LoadMigrations
loadVars == <<directory, loader>>

\* the variables of the migration manager
migVars == <<migrations, schema_migrations, schemaLog, mig>>

\* what no statement of CreateOrder writes
frameVars == <<ctx, migVars, loadVars, repo>>

\* the variables of CreateOrder and of the store it works on, faults apart
orderVars == <<dbVars, localVars, pc, via, req, err, code, resp, touched, ctx>>

\* what no statement of MigrateUp and MigrateDown writes
callVars == <<orderVars, loadVars, repo>>

Versions == 1..NumMigrations

\* the migrate processes (cmd/migrate)
Migrators == {1, 2}

\* a migrate process that runs no command
IdleMigrator ==
  [pc |-> "idle", cmd |-> "", steps |-> 0, applied |-> {}, list |-> <<>>, idx |-> 0,
   count |-> 0, cur |-> 0, open |-> FALSE, sql |-> FALSE, rec |-> FALSE,
   err |-> "", failed |-> 0, runs |-> 0, base |-> 0]

\* LoadMigrations has not been called
IdleLoader == [pc |-> "idle", todo |-> <<>>, list |-> <<>>, err |-> ""]

\* no migration is loaded, no migrate process runs
MigrationIdle ==
  /\ directory = {}
  /\ loader = IdleLoader
  /\ migrations = <<>>
  /\ schema_migrations = {}
  /\ schemaLog = <<>>
  /\ mig = [m \in Migrators |-> IdleMigrator]

\* the locals of CreateOrder are gone once it has returned
DropLocals(c) ==
  /\ concertSession' = [concertSession EXCEPT ![c] = NoSession]
  /\ tickets' = [tickets EXCEPT ![c] = <<>>]
  /\ order' = [order EXCEPT ![c] = NoOrder]
  /\ updIdx' = [updIdx EXCEPT ![c] = 0]

NoWrites == [t \in TicketIDs |-> ""]

\* a caller of the ticket repository that runs no unit of work
IdleCaller == [pc |-> "idle", list |-> <<>>, status |-> "", idx |-> 0, err |-> "", runs |-> 0]

OrdersInit ==
  /\ db_sessions = {[id |-> 1, price |-> 9999], [id |-> 2, price |-> 5000]}
  /\ db_tickets = [t \in TicketIDs |-> [session_id |-> SessionOfTicket(t), status |-> "available"]]
  /\ db_orders = {}
  /\ orderSeq = 0
  /\ dbClock = 0
  /\ rowLock = [t \in TicketIDs |-> 0]
  /\ txOpen = [c \in Calls |-> FALSE]
  /\ txOrders = [c \in Calls |-> {}]
  /\ txTickets = [c \in Calls |-> NoWrites]
  /\ committedWrites = {}
  /\ pc = [c \in Calls |-> "idle"]
  /\ via = [c \in Calls |-> "grpc"]
  /\ req = [c \in Calls |-> NoRequest]
  /\ concertSession = [c \in Calls |-> NoSession]
  /\ tickets = [c \in Calls |-> <<>>]
  /\ order = [c \in Calls |-> NoOrder]
  /\ updIdx = [c \in Calls |-> 0]
  /\ err = [c \in Calls |-> ""]
  /\ code = [c \in Calls |-> ""]
  /\ resp = [c \in Calls |-> NoResponse]
  /\ touched = [c \in Calls |-> FALSE]
  /\ faults = 0
  /\ ctx = [c \in Calls |-> "active"]
  /\ repo = [c \in Calls |-> IdleCaller]

\* the store as provisioned, no call yet
Init == OrdersInit /\ MigrationIdle

\* the values of tickets.status (CHECK constraint of the table)
TicketStatuses == {"available", "pending", "sold"}

\* a store in which earlier orders and the payment side have left the tickets in
\* any status
InitStore ==
  /\ db_sessions = {[id |-> 1, price |-> 9999], [id |-> 2, price |-> 5000]}
  /\ \E st \in [TicketIDs -> TicketStatuses] :
       db_tickets = [t \in TicketIDs |-> [session_id |-> SessionOfTicket(t), status |-> st[t]]]
  /\ db_orders = {}
  /\ orderSeq = 0
  /\ dbClock = 0
  /\ rowLock = [t \in TicketIDs |-> 0]
  /\ txOpen = [c \in Calls |-> FALSE]
  /\ txOrders = [c \in Calls |-> {}]
  /\ txTickets = [c \in Calls |-> NoWrites]
  /\ committedWrites = {}
  /\ pc = [c \in Calls |-> "idle"]
  /\ via = [c \in Calls |-> "grpc"]
  /\ req = [c \in Calls |-> NoRequest]
  /\ concertSession = [c \in Calls |-> NoSession]
  /\ tickets = [c \in Calls |-> <<>>]
  /\ order = [c \in Calls |-> NoOrder]
  /\ updIdx = [c \in Calls |-> 0]
  /\ err = [c \in Calls |-> ""]
  /\ code = [c \in Calls |-> ""]
  /\ resp = [c \in Calls |-> NoResponse]
  /\ touched = [c \in Calls |-> FALSE]
  /\ faults = 0
  /\ ctx = [c \in Calls |-> "active"]
  /\ repo = [c \in Calls |-> IdleCaller]
  /\ MigrationIdle

\* ------------------------------------------------------------ pure parts

\* HandlerValidate without the check of concert_session_id
HandlerValidateNoSessionCheck(r) ==
  IF r.user_id <= 0 THEN "user_id must be positive"
  ELSE IF r.number_of_tickets <= 0 THEN "number_of_tickets must be positive"
  ELSE IF r.number_of_tickets > MaxTicketsPerOrder THEN "maximum 3 tickets allowed per order"
  ELSE ""

\* a handler that returns when ctx.Err() is not nil
ContextErrorChecked(c) == IF ctx[c] = "cancelled" THEN "context canceled" ELSE ""

\* GRPCHandler.CreateOrder receives ctx and reads it nowhere: it is not passed
\* to the service, and the repositories run their statements without a context
ContextError(c) == ""

\* GRPCHandler.CreateOrder, request validation: message of the first failed check
HandlerValidate(r) ==
  IF r.user_id <= 0 THEN "user_id must be positive"
  ELSE IF r.concert_session_id <= 0 THEN "concert_session_id must be positive"
  ELSE IF r.number_of_tickets <= 0 THEN "number_of_tickets must be positive"
  ELSE IF r.number_of_tickets > MaxTicketsPerOrder THEN "maximum 3 tickets allowed per order"
  ELSE ""

\* ServiceValidate without the upper limit
ServiceValidateNoMax(r) ==
  IF r.number_of_tickets <= 0 THEN "number of tickets must be greater than 0"
  ELSE ""

\* OrderService.CreateOrder, request validation
ServiceValidate(r) ==
  IF r.number_of_tickets <= 0 THEN "number of tickets must be greater than 0"
  ELSE IF r.number_of_tickets > MaxTicketsPerOrder THEN "maximum 3 tickets allowed per order"
  ELSE ""

\* MapError matching "session not found" where the service says "concert session not found"
MapErrorOtherMessage(e) ==
  CASE e = "session not found" -> "NotFound"
    [] e = "no tickets available" -> "ResourceExhausted"
    [] e = "request cannot be nil" -> "InvalidArgument"
    [] e = "number of tickets must be greater than 0" -> "InvalidArgument"
    [] e = "maximum 3 tickets allowed per order" -> "InvalidArgument"
    [] OTHER -> "Internal"

\* MapError without the case "no tickets available"
MapErrorNoExhausted(e) ==
  CASE e = "concert session not found" -> "NotFound"
    [] e = "request cannot be nil" -> "InvalidArgument"
    [] e = "number of tickets must be greater than 0" -> "InvalidArgument"
    [] e = "maximum 3 tickets allowed per order" -> "InvalidArgument"
    [] OTHER -> "Internal"

\* GRPCHandler.CreateOrder, switch err.Error()
MapError(e) ==
  CASE e = "concert session not found" -> "NotFound"
    [] e = "no tickets available" -> "ResourceExhausted"
    [] e = "request cannot be nil" -> "InvalidArgument"
    [] e = "number of tickets must be greater than 0" -> "InvalidArgument"
    [] e = "maximum 3 tickets allowed per order" -> "InvalidArgument"
    [] OTHER -> "Internal"

RECURSIVE Ascending(_)
\* ORDER BY id ASC
Ascending(S) ==
  IF S = {} THEN <<>>
  ELSE LET m == CHOOSE x \in S : \A y \in S : x <= y
       IN <<m>> \o Ascending(S \ {m})

\* the last n rows instead of the first n
LimitLast(s, n) == IF Len(s) <= n THEN s ELSE SubSeq(s, Len(s) - n + 1, Len(s))

\* LIMIT n
Limit(s, n) == IF Len(s) <= n THEN s ELSE SubSeq(s, 1, n)

\* the selection without the condition on status
GetTicketsBySessionIDOfAnyStatus(sessionID, numberOfTickets) ==
  Limit(Ascending({t \in TicketIDs : db_tickets[t].session_id = sessionID}), numberOfTickets)

\* the selection without the condition on session_id
GetAvailableTicketsOfAnySession(sessionID, numberOfTickets) ==
  Limit(Ascending({t \in TicketIDs : db_tickets[t].status = "available"}), numberOfTickets)

\* SELECT ... FROM tickets WHERE session_id = $1 AND status = 'available' ORDER BY id ASC LIMIT $2
GetAvailableTicketsBySessionID(sessionID, numberOfTickets) ==
  Limit(Ascending({t \in TicketIDs : /\ db_tickets[t].session_id = sessionID
                                     /\ db_tickets[t].status = "available"}),
        numberOfTickets)

\* The connection a statement of call c runs on: 0 is the pool (r.GetDB() / r.db,
\* an implicit transaction that ends with the statement), c is the transaction
\* tx that WithTransaction opened for the call.
\* GetAvailableTicketsBySessionID: r.GetDB().Select(...)
SelectConn(c) == 0

\* the insert run on the pool instead of the transaction
InsertConnPool(c) == 0

\* OrderRepository.CreateOrder: tx.QueryRow(...)
InsertConn(c) == c

\* the updates run on the pool instead of the transaction
UpdateConnPool(c) == 0

\* UpdateTicketStatuses: tx.Exec(...)
UpdateConn(c) == c

\* the table concert_sessions has a row with this id
SessionExists(id) == \E s \in db_sessions : s.id = id

\* the lookup without its WHERE clause: some row even when none has this id
GetConcertSessionByIDAnyRow(id) == CHOOSE s \in db_sessions : TRUE

\* GetConcertSessionByID returning an empty session, not nil, when no row matches
GetConcertSessionByIDEmpty(id) ==
  IF \E s \in db_sessions : s.id = id
  THEN CHOOSE s \in db_sessions : s.id = id
  ELSE [id |-> id, price |-> 0]

\* SELECT ... FROM concert_sessions WHERE id = $1
GetConcertSessionByID(id) ==
  IF \E s \in db_sessions : s.id = id
  THEN CHOOSE s \in db_sessions : s.id = id
  ELSE NoSession

Range(s) == {s[i] : i \in 1..Len(s)}

\* the response without the creation timestamp of the row
ResponseNoCreatedAt(o, ts) ==
  [order_id |-> o.id, status |-> o.status, ticket_ids |-> ts,
   total_price |-> o.total_price, created_at |-> 0]

\* the response built at the end of OrderService.CreateOrder
Response(o, ts) ==
  [order_id |-> o.id, status |-> o.status, ticket_ids |-> ts,
   total_price |-> o.total_price, created_at |-> o.created_at]

\* --------------------------------------------------------------- actions

\* the call returns to the RPC caller with error e: the handler maps it
Return(c, e) ==
  /\ err' = [err EXCEPT ![c] = e]
  /\ code' = [code EXCEPT ![c] = IF via[c] = "grpc" THEN MapError(e) ELSE ""]
  /\ pc' = [pc EXCEPT ![c] = "done"]
  /\ DropLocals(c)

\* a transaction that ends without releasing its row locks
EndTxKeepingLocks(c) ==
  /\ txOpen' = [txOpen EXCEPT ![c] = FALSE]
  /\ rowLock' = rowLock
  /\ txOrders' = [txOrders EXCEPT ![c] = {}]
  /\ txTickets' = [txTickets EXCEPT ![c] = NoWrites]

\* the transaction of c ends: its row locks are released
EndTx(c) ==
  /\ txOpen' = [txOpen EXCEPT ![c] = FALSE]
  /\ rowLock' = [t \in TicketIDs |-> IF rowLock[t] = c THEN 0 ELSE rowLock[t]]
  /\ txOrders' = [txOrders EXCEPT ![c] = {}]
  /\ txTickets' = [txTickets EXCEPT ![c] = NoWrites]

\* a commit that makes the order row visible and not the ticket updates
ApplyTxOrdersOnly(c) ==
  /\ db_orders' = db_orders \cup txOrders[c]
  /\ db_tickets' = db_tickets
  /\ committedWrites' = committedWrites \cup {<<c, "orders", o.id>> : o \in txOrders[c]}

\* a commit after which the table orders holds the rows of the transaction only
ApplyTxReplacingOrders(c) ==
  /\ db_orders' = txOrders[c]
  /\ db_tickets' = [t \in TicketIDs |->
                      IF txTickets[c][t] # "" THEN [db_tickets[t] EXCEPT !.status = txTickets[c][t]]
                      ELSE db_tickets[t]]
  /\ committedWrites' = committedWrites
                          \cup {<<c, "orders", o.id>> : o \in txOrders[c]}
                          \cup {<<c, "tickets", t>> : t \in {u \in TicketIDs : txTickets[c][u] # ""}}

\* COMMIT: the writes of the transaction of c become the committed version
ApplyTx(c) ==
  /\ db_orders' = db_orders \cup txOrders[c]
  /\ db_tickets' = [t \in TicketIDs |->
                      IF txTickets[c][t] # "" THEN [db_tickets[t] EXCEPT !.status = txTickets[c][t]]
                      ELSE db_tickets[t]]
  /\ committedWrites' = committedWrites
                          \cup {<<c, "orders", o.id>> : o \in txOrders[c]}
                          \cup {<<c, "tickets", t>> : t \in {u \in TicketIDs : txTickets[c][u] # ""}}

\* the writes of the transaction of c reach the tables although it did not commit
DiscardTxApplied(c) == ApplyTx(c)

\* ROLLBACK: the writes of the transaction of c are discarded
DiscardTx(c) ==
  UNCHANGED <<db_orders, db_tickets, committedWrites>>

\* a service that, after the rollback, begins the unit of work again
RollbackAndRetry(c, e) ==
  /\ DiscardTx(c)
  /\ EndTx(c)
  /\ pc' = [pc EXCEPT ![c] = "begin"]
  /\ DropLocals(c)
  /\ UNCHANGED <<err, code>>

\* WithTransaction when fn returns e: the deferred tx.Rollback(), return e
Rollback(c, e) ==
  /\ DiscardTx(c)
  /\ EndTx(c)
  /\ Return(c, e)

\* a storage operation fails
Fault ==
  /\ faults < MaxFaults
  /\ faults' = faults + 1

\* A call arrives with request r, at the RPC handler (GRPCHandler.CreateOrder,
\* which validates and then calls the service) or at the service directly
\* (OrderService.CreateOrder); it runs up to the call of WithTransaction
\* (calls are interchangeable: they are numbered in their order of arrival)
Call(c, r, entry) ==
  /\ pc[c] = "idle"
  /\ \A d \in Calls : d < c => pc[d] # "idle"
  /\ req' = [req EXCEPT ![c] = r]
  /\ via' = [via EXCEPT ![c] = entry]
  /\ IF entry = "grpc" /\ ContextError(c) # ""
     THEN /\ err' = [err EXCEPT ![c] = ContextError(c)]
          /\ code' = [code EXCEPT ![c] = "Canceled"]
          /\ pc' = [pc EXCEPT ![c] = "done"]
     ELSE IF entry = "grpc" /\ HandlerValidate(r) # ""
     THEN /\ err' = [err EXCEPT ![c] = HandlerValidate(r)]
          /\ code' = [code EXCEPT ![c] = "InvalidArgument"]
          /\ pc' = [pc EXCEPT ![c] = "done"]
     ELSE IF ServiceValidate(r) # ""
     THEN /\ err' = [err EXCEPT ![c] = ServiceValidate(r)]
          /\ code' = [code EXCEPT ![c] = IF entry = "grpc" THEN MapError(ServiceValidate(r)) ELSE ""]
          /\ pc' = [pc EXCEPT ![c] = "done"]
     ELSE /\ pc' = [pc EXCEPT ![c] = "begin"]
          /\ UNCHANGED <<err, code>>
  /\ UNCHANGED <<frameVars, dbVars, localVars, resp, touched, faults>>

\* WithTransaction: tx, err := r.db.Beginx()
Begin(c) ==
  /\ pc[c] = "begin"
  /\ touched' = [touched EXCEPT ![c] = TRUE]
  /\ \/ /\ txOpen' = [txOpen EXCEPT ![c] = TRUE]
        /\ pc' = [pc EXCEPT ![c] = "session"]
        /\ UNCHANGED <<err, code, localVars, faults>>
     \/ /\ Fault
        /\ Return(c, BeginError)
        /\ UNCHANGED txOpen
  /\ UNCHANGED <<frameVars, db_sessions, db_tickets, db_orders, orderSeq, dbClock, rowLock, txOrders, txTickets,
                 committedWrites, via, req, resp>>

\* s.concertSessionRepo.GetConcertSessionByID(req.ConcertSessionID)
GetSession(c) ==
  /\ pc[c] = "session"
  /\ \/ LET s == GetConcertSessionByID(req[c].concert_session_id)
        IN IF s = NoSession
           THEN /\ Rollback(c, "concert session not found")
                /\ UNCHANGED faults
           ELSE /\ concertSession' = [concertSession EXCEPT ![c] = s]
                /\ pc' = [pc EXCEPT ![c] = "select"]
                /\ UNCHANGED <<db_orders, db_tickets, committedWrites, rowLock, txOpen, txOrders,
                               txTickets, tickets, order, updIdx, err, code, faults>>
     \/ /\ Fault
        /\ Rollback(c, StorageError)
  /\ UNCHANGED <<frameVars, db_sessions, orderSeq, dbClock, via, req, resp, touched>>

\* s.ticketRepo.GetAvailableTicketsBySessionID(req.ConcertSessionID, req.NumberOfTickets):
\* SELECT ... FOR UPDATE waits for the row locks of the rows it returns; the locks
\* it takes live as long as the transaction of the connection it runs on
SelectTickets(c) ==
  /\ pc[c] = "select"
  /\ \/ LET rows == GetAvailableTicketsBySessionID(req[c].concert_session_id, req[c].number_of_tickets)
        IN /\ \A i \in 1..Len(rows) : rowLock[rows[i]] \in {0, SelectConn(c)}
           /\ IF Len(rows) = 0
              THEN /\ Rollback(c, "no tickets available")
                   /\ UNCHANGED faults
              ELSE /\ rowLock' = [t \in TicketIDs |->
                                    IF t \in Range(rows) /\ SelectConn(c) # 0
                                    THEN SelectConn(c) ELSE rowLock[t]]
                   /\ tickets' = [tickets EXCEPT ![c] = rows]
                   /\ pc' = [pc EXCEPT ![c] = "insert"]
                   /\ UNCHANGED <<db_orders, db_tickets, committedWrites, txOpen, txOrders, txTickets,
                                  concertSession, order, updIdx, err, code, faults>>
     \/ /\ Fault
        /\ Rollback(c, StorageError)
  /\ UNCHANGED <<frameVars, db_sessions, orderSeq, dbClock, via, req, resp, touched>>

\* the unit price taken as the total, whatever the number of tickets
TotalPriceOfOneTicket(ts, session) == session.price

\* TotalPrice: decimal.NewFromInt(int64(len(tickets))).Mul(concertSession.Price)
TotalPrice(ts, session) == Len(ts) * session.price

\* order = &models.Order{...}; s.orderRepo.CreateOrder(tx, order):
\* INSERT INTO orders (status, total_price) ... RETURNING id, created_at, status, total_price
InsertOrder(c) ==
  /\ pc[c] = "insert"
  /\ \/ LET row == [id |-> orderSeq + 1, created_at |-> dbClock + 1, status |-> "pending",
                    total_price |-> TotalPrice(tickets[c], concertSession[c])]
        IN /\ orderSeq' = orderSeq + 1
           /\ dbClock' = dbClock + 1
           /\ IF InsertConn(c) = 0
              THEN /\ db_orders' = db_orders \cup {row}
                   /\ committedWrites' = committedWrites \cup {<<c, "orders", row.id>>}
                   /\ UNCHANGED txOrders
              ELSE /\ txOrders' = [txOrders EXCEPT ![c] = @ \cup {row}]
                   /\ UNCHANGED <<db_orders, committedWrites>>
           /\ order' = [order EXCEPT ![c] = row]
           /\ updIdx' = [updIdx EXCEPT ![c] = 1]
           /\ pc' = [pc EXCEPT ![c] = "update"]
           /\ UNCHANGED <<db_tickets, rowLock, txOpen, txTickets,
                          concertSession, tickets, err, code, faults>>
     \/ /\ Fault
        /\ Rollback(c, StorageError)
        /\ UNCHANGED <<orderSeq, dbClock>>
  /\ UNCHANGED <<frameVars, db_sessions, via, req, resp, touched>>

\* a loop that callers of even number walk from the end of the list
TicketAtFromTheEndForEven(c, list, i) ==
  IF c % 2 = 0 THEN list[Len(list) - i + 1] ELSE list[i]

\* UpdateTicketStatuses, for _, ticket := range tickets: the ticket of turn i
TicketAt(c, list, i) == list[i]

\* an update that leaves alone a row that is not available
UpdateRowWhenAvailable(c, t, status) ==
  /\ rowLock[t] \in {0, c}
  /\ rowLock' = [rowLock EXCEPT ![t] = c]
  /\ txTickets' = IF db_tickets[t].status = "available" /\ txTickets[c][t] = ""
                  THEN [txTickets EXCEPT ![c][t] = status] ELSE txTickets
  /\ UNCHANGED <<db_tickets, committedWrites>>

\* UPDATE tickets SET status = $1 WHERE id = $2: the statement waits for the
\* row lock, and on a transaction it keeps the lock until the transaction ends
UpdateRow(c, t, status) ==
  /\ rowLock[t] \in {0, UpdateConn(c)}
  /\ IF UpdateConn(c) = 0
     THEN /\ db_tickets' = [db_tickets EXCEPT ![t].status = status]
          /\ committedWrites' = committedWrites \cup {<<c, "tickets", t>>}
          /\ UNCHANGED <<rowLock, txTickets>>
     ELSE /\ rowLock' = [rowLock EXCEPT ![t] = c]
          /\ txTickets' = [txTickets EXCEPT ![c][t] = status]
          /\ UNCHANGED <<db_tickets, committedWrites>>

\* s.ticketRepo.UpdateTicketStatuses(tx, tickets, "pending"), one iteration of the
\* loop: UPDATE tickets SET status = $1 WHERE id = $2 waits for the row lock and
\* keeps it until the transaction ends
UpdateTicket(c) ==
  /\ pc[c] = "update"
  /\ \/ LET t == TicketAt(c, tickets[c], updIdx[c])
        IN /\ UpdateRow(c, t, "pending")
           /\ updIdx' = [updIdx EXCEPT ![c] = @ + 1]
           /\ pc' = [pc EXCEPT ![c] = IF updIdx[c] = Len(tickets[c]) THEN "commit" ELSE "update"]
           /\ UNCHANGED <<db_orders, txOpen, txOrders,
                          concertSession, tickets, order, err, code, faults>>
     \/ /\ Fault
        /\ Rollback(c, StorageError)
  /\ UNCHANGED <<frameVars, db_sessions, orderSeq, dbClock, via, req, resp, touched>>

\* WithTransaction: return tx.Commit(); on success the rest of
\* OrderService.CreateOrder and of the handler build the response
Commit(c) ==
  /\ pc[c] = "commit"
  /\ \/ /\ ApplyTx(c)
        /\ EndTx(c)
        /\ resp' = [resp EXCEPT ![c] = Response(order[c], tickets[c])]
        /\ code' = [code EXCEPT ![c] = IF via[c] = "grpc" THEN "OK" ELSE ""]
        /\ pc' = [pc EXCEPT ![c] = "done"]
        /\ DropLocals(c)
        /\ UNCHANGED <<err, faults>>
     \/ /\ Fault
        /\ DiscardTx(c)
        /\ EndTx(c)
        /\ Return(c, CommitError)
        /\ UNCHANGED resp
  /\ UNCHANGED <<frameVars, db_sessions, orderSeq, dbClock, via, req, touched>>

Next ==
  \/ \E c \in Calls, r \in Requests : Call(c, r, "grpc")
  \/ \E c \in Calls : Begin(c)
  \/ \E c \in Calls : GetSession(c)
  \/ \E c \in Calls : SelectTickets(c)
  \/ \E c \in Calls : InsertOrder(c)
  \/ \E c \in Calls : UpdateTicket(c)
  \/ \E c \in Calls : Commit(c)

\* concurrent calls with well-formed requests
Spec == Init /\ [][Next]_vars

\* a step of call c in which the store does not fail
Progress(c) ==
  /\ \/ Begin(c) \/ GetSession(c) \/ SelectTickets(c) \/ InsertOrder(c) \/ UpdateTicket(c) \/ Commit(c)
  /\ faults' = faults

\* requests that compete for the same two tickets of one concert session
ContendedRequests == {r \in Requests : r.concert_session_id = 1 /\ r.number_of_tickets = 2}

\* concurrent calls that all ask for tickets of the same concert session
NextContended ==
  \/ \E c \in Calls, r \in ContendedRequests : Call(c, r, "service")
  \/ \E c \in Calls : Begin(c)
  \/ \E c \in Calls : GetSession(c)
  \/ \E c \in Calls : SelectTickets(c)
  \/ \E c \in Calls : InsertOrder(c)
  \/ \E c \in Calls : UpdateTicket(c)
  \/ \E c \in Calls : Commit(c)

\* the same calls under fair scheduling: a call that can take its next step
\* (its goroutine is runnable, the row lock it asks for is free) eventually
\* takes it or fails; the store may still fail any statement
FairSpec == Init /\ [][NextContended]_vars /\ \A c \in Calls : WF_vars(Progress(c))

\* one call with any request, at either entry point
NextInput ==
  \/ \E r \in AnyRequest, entry \in {"grpc", "service"} : Call(1, r, entry)
  \/ Begin(1)
  \/ GetSession(1)
  \/ SelectTickets(1)
  \/ InsertOrder(1)
  \/ UpdateTicket(1)
  \/ Commit(1)

SpecInput == Init /\ [][NextInput]_vars

\* one call with any request, at either entry point, on a store in any state
SpecStore == InitStore /\ [][NextInput]_vars

\* the caller (or the transport) cancels the context of the call, before the
\* call arrives, while it runs, or after it has returned
Cancel(c) ==
  /\ ctx[c] = "active"
  /\ ctx' = [ctx EXCEPT ![c] = "cancelled"]
  /\ UNCHANGED <<dbVars, localVars, pc, via, req, err, code, resp, touched, faults, migVars, loadVars, repo>>

NextCancel ==
  \/ \E r \in AnyRequest : Call(1, r, "grpc")
  \/ Begin(1)
  \/ GetSession(1)
  \/ SelectTickets(1)
  \/ InsertOrder(1)
  \/ UpdateTicket(1)
  \/ Commit(1)
  \/ Cancel(1)

\* one call at the RPC handler whose context may be cancelled at any moment
SpecCancel == Init /\ [][NextCancel]_vars

\* ------------------------------------------------------- ticket repository

\* the lists of tickets UpdateTicketStatuses is called with
TicketLists == {<<>>, <<1>>, <<1, 2>>, <<2, 1>>, <<1, 2, 3>>}

\* what no unit of work of a caller of the ticket repository writes
repoFrame == <<db_sessions, orderSeq, dbClock, localVars, pc, via, req, err, code, resp, touched,
               ctx, migVars, loadVars>>

\* baseRepo.WithTransaction(func(tx) error { return repo.UpdateTicketStatuses(tx, list, status) })
RepoStart(c, list, status) ==
  /\ repo[c].pc \in {"idle", "done"}
  /\ repo[c].runs < MaxTransactions
  /\ repo' = [repo EXCEPT ![c] = [pc |-> "begin", list |-> list, status |-> status, idx |-> 1,
                                  err |-> "", runs |-> repo[c].runs + 1]]
  /\ UNCHANGED <<dbVars, faults, repoFrame>>

\* the unit of work of c ends with error e: the deferred tx.Rollback()
RepoRollback(c, e) ==
  /\ DiscardTx(c)
  /\ EndTx(c)
  /\ repo' = [repo EXCEPT ![c].pc = "done", ![c].err = e]

\* WithTransaction: tx, err := r.db.Beginx()
RepoBegin(c) ==
  /\ repo[c].pc = "begin"
  /\ \/ /\ txOpen' = [txOpen EXCEPT ![c] = TRUE]
        /\ repo' = [repo EXCEPT ![c].pc = IF repo[c].list = <<>> THEN "commit" ELSE "update"]
        /\ UNCHANGED faults
     \/ /\ Fault
        /\ repo' = [repo EXCEPT ![c].pc = "done", ![c].err = BeginError]
        /\ UNCHANGED txOpen
  /\ UNCHANGED <<db_tickets, db_orders, rowLock, txOrders, txTickets, committedWrites, repoFrame>>

\* UpdateTicketStatuses(tx, list, status), one turn of the loop
RepoUpdate(c) ==
  /\ repo[c].pc = "update"
  /\ \/ /\ UpdateRow(c, TicketAt(c, repo[c].list, repo[c].idx), repo[c].status)
        /\ repo' = [repo EXCEPT ![c].idx = @ + 1,
                                ![c].pc = IF repo[c].idx = Len(repo[c].list) THEN "commit" ELSE "update"]
        /\ UNCHANGED <<db_orders, txOpen, txOrders, faults>>
     \/ /\ Fault
        /\ RepoRollback(c, StorageError)
  /\ UNCHANGED repoFrame

\* WithTransaction: return tx.Commit()
RepoCommit(c) ==
  /\ repo[c].pc = "commit"
  /\ \/ /\ ApplyTx(c)
        /\ EndTx(c)
        /\ repo' = [repo EXCEPT ![c].pc = "done"]
        /\ UNCHANGED faults
     \/ /\ Fault
        /\ RepoRollback(c, CommitError)
  /\ UNCHANGED repoFrame

NextRepo ==
  \/ \E list \in TicketLists, status \in TicketStatuses : RepoStart(1, list, status)
  \/ RepoBegin(1)
  \/ RepoUpdate(1)
  \/ RepoCommit(1)

\* one caller that runs units of work around UpdateTicketStatuses one after
\* the other
SpecRepo == Init /\ [][NextRepo]_vars

\* the lists concurrent callers contend on
ContendedLists == {<<1, 2>>, <<2, 1>>, <<1, 2, 3>>}

NextRepoConcurrent ==
  \/ \E c \in Calls, list \in ContendedLists, status \in TicketStatuses :
       repo[c].pc = "idle" /\ RepoStart(c, list, status)
  \/ \E c \in Calls : RepoBegin(c)
  \/ \E c \in Calls : RepoUpdate(c)
  \/ \E c \in Calls : RepoCommit(c)

\* callers that each run one unit of work around UpdateTicketStatuses,
\* concurrently
SpecRepoConcurrent == Init /\ [][NextRepoConcurrent]_vars

\* ------------------------------------------------------ migration manager

RECURSIVE Descending(_)
\* sort.Slice(appliedMigrations, ... Version > ... Version)
Descending(S) ==
  IF S = {} THEN <<>>
  ELSE LET m == CHOOSE x \in S : \A y \in S : x >= y
       IN <<m>> \o Descending(S \ {m})

\* GetAppliedMigrations: SELECT version FROM schema_migrations
GetAppliedMigrations == {r.version : r \in schema_migrations}

\* MigrateUp iterating over the loaded migrations from the newest to the oldest
MigrationListNewestFirst(cmd, applied) ==
  Descending({v \in Range(migrations) : cmd = "up" \/ v \in applied})

\* MigrateDown without its sort: the applied migrations from the oldest to the newest
MigrationListOldestFirst(cmd, applied) ==
  IF cmd = "up" THEN migrations
  ELSE Ascending({v \in Range(migrations) : v \in applied})

\* the migrations a command iterates over: MigrateUp over mm.migrations,
\* MigrateDown over the loaded migrations found applied, newest first
MigrationList(cmd, applied) ==
  IF cmd = "up" THEN migrations
  ELSE Descending({v \in Range(migrations) : v \in applied})

\* the row INSERT INTO schema_migrations (version, applied_at) VALUES ($1, NOW())
\* writes under the name dirty
InsertedDirty == FALSE

\* the store a migrate command finds: any set of migrations loaded from the
\* directory, any set of versions recorded by earlier commands
InitMigrate ==
  /\ OrdersInit
  /\ \E L \in SUBSET Versions : migrations = Ascending(L)
  /\ \E R \in SUBSET Versions : schema_migrations = {[version |-> v, dirty |-> FALSE, applied_at |-> 0] : v \in R}
  /\ schemaLog = <<>>
  /\ mig = [m \in Migrators |-> IdleMigrator]
  /\ directory = {}
  /\ loader = IdleLoader

\* cmd/migrate: manager.MigrateUp() or manager.MigrateDown(*steps)
MigrateStart(m, cmd, steps) ==
  /\ mig[m].pc \in {"idle", "done"}
  /\ mig[m].runs < MaxCommands
  /\ mig' = [mig EXCEPT ![m] = [IdleMigrator EXCEPT !.pc = "init", !.cmd = cmd, !.steps = steps,
                                                   !.runs = mig[m].runs + 1,
                                                   !.base = Len(schemaLog)]]
  /\ UNCHANGED <<callVars, faults, migrations, schema_migrations, schemaLog>>

\* the command returns e: the deferred tx.Rollback() discards what the open
\* transaction has done
MigrateFailKeepingSchema(m, e) ==
  /\ mig' = [mig EXCEPT ![m].pc = "done", ![m].err = e, ![m].failed = mig[m].cur, ![m].cur = 0,
                        ![m].open = FALSE, ![m].sql = FALSE, ![m].rec = FALSE]
  /\ schemaLog' = IF mig[m].sql THEN Append(schemaLog, <<mig[m].cmd, mig[m].cur>>) ELSE schemaLog
  /\ UNCHANGED schema_migrations

\* a loop that goes on with the next migration when one has failed
MigrateFailAndGoOn(m, e) ==
  /\ mig' = IF mig[m].cur = 0
            THEN [mig EXCEPT ![m].pc = "done", ![m].err = e]
            ELSE [mig EXCEPT ![m].pc = "loop", ![m].idx = @ + 1, ![m].failed = mig[m].cur,
                             ![m].cur = 0, ![m].open = FALSE, ![m].sql = FALSE, ![m].rec = FALSE]
  /\ UNCHANGED <<schema_migrations, schemaLog>>

\* the command returns e: the deferred tx.Rollback() discards what the open
\* transaction has done
MigrateFail(m, e) ==
  /\ mig' = [mig EXCEPT ![m].pc = "done", ![m].err = e, ![m].failed = mig[m].cur, ![m].cur = 0,
                        ![m].open = FALSE, ![m].sql = FALSE, ![m].rec = FALSE]
  /\ UNCHANGED <<schema_migrations, schemaLog>>

\* InitializeMigrationTable: CREATE TABLE IF NOT EXISTS schema_migrations
InitializeMigrationTable(m) ==
  /\ mig[m].pc = "init"
  /\ \/ /\ mig' = [mig EXCEPT ![m].pc = "read"]
        /\ UNCHANGED <<schema_migrations, schemaLog, faults>>
     \/ /\ Fault
        /\ MigrateFail(m, "failed to initialize migration table")
  /\ UNCHANGED <<callVars, migrations>>

\* MigrateUp / MigrateDown: applied, err := mm.GetAppliedMigrations(), and the
\* list the loop runs over
ReadApplied(m) ==
  /\ mig[m].pc = "read"
  /\ \/ /\ mig' = [mig EXCEPT ![m].pc = "loop", ![m].applied = GetAppliedMigrations,
                              ![m].list = MigrationList(mig[m].cmd, GetAppliedMigrations),
                              ![m].idx = 1, ![m].count = 0]
        /\ UNCHANGED <<schema_migrations, schemaLog, faults>>
     \/ /\ Fault
        /\ MigrateFail(m, StorageError)
  /\ UNCHANGED <<callVars, migrations>>

\* one turn of the loop of MigrateUp (if !applied[migration.Version]) or of
\* MigrateDown (if count >= steps break), up to the call of ApplyMigration or
\* RollbackMigration
Loop(m) ==
  /\ mig[m].pc = "loop"
  /\ IF mig[m].idx > Len(mig[m].list) \/ (mig[m].cmd = "down" /\ mig[m].count >= mig[m].steps)
     THEN mig' = [mig EXCEPT ![m].pc = "done", ![m].err = ""]
     ELSE IF mig[m].cmd = "up" /\ mig[m].list[mig[m].idx] \in mig[m].applied
     THEN mig' = [mig EXCEPT ![m].idx = @ + 1]
     ELSE mig' = [mig EXCEPT ![m].pc = "check", ![m].cur = mig[m].list[mig[m].idx]]
  /\ UNCHANGED <<callVars, faults, migrations, schema_migrations, schemaLog>>

\* ApplyMigration / RollbackMigration returns nil: the loop goes on
Advance(m) ==
  mig' = [mig EXCEPT ![m].pc = "loop", ![m].idx = @ + 1,
                     ![m].count = IF mig[m].cmd = "down" THEN @ + 1 ELSE @,
                     ![m].cur = 0, ![m].open = FALSE, ![m].sql = FALSE, ![m].rec = FALSE]

\* ApplyMigration / RollbackMigration: its own GetAppliedMigrations, and the
\* return without doing anything when the migration is already applied
\* (already not applied)
CheckApplied(m) ==
  /\ mig[m].pc = "check"
  /\ \/ /\ IF (mig[m].cur \in GetAppliedMigrations) = (mig[m].cmd = "up")
           THEN Advance(m)
           ELSE mig' = [mig EXCEPT ![m].pc = "begin"]
        /\ UNCHANGED <<schema_migrations, schemaLog, faults>>
     \/ /\ Fault
        /\ MigrateFail(m, StorageError)
  /\ UNCHANGED <<callVars, migrations>>

\* tx, err := mm.db.Begin()
BeginMigration(m) ==
  /\ mig[m].pc = "begin"
  /\ \/ /\ mig' = [mig EXCEPT ![m].pc = "exec", ![m].open = TRUE]
        /\ UNCHANGED <<schema_migrations, schemaLog, faults>>
     \/ /\ Fault
        /\ MigrateFail(m, BeginError)
  /\ UNCHANGED <<callVars, migrations>>

\* tx.Exec(migration.UpSQL) / tx.Exec(migration.DownSQL)
ExecMigration(m) ==
  /\ mig[m].pc = "exec"
  /\ \/ /\ mig' = [mig EXCEPT ![m].pc = "record", ![m].sql = TRUE]
        /\ UNCHANGED <<schema_migrations, schemaLog, faults>>
     \/ /\ Fault
        /\ MigrateFail(m, IF mig[m].cmd = "up" THEN "failed to apply migration"
                          ELSE "failed to rollback migration")
  /\ UNCHANGED <<callVars, migrations>>

\* a table schema_migrations without a key on version
NoPrimaryKey(v) == FALSE

\* version BIGINT PRIMARY KEY: the insert of a version that a committed row holds
\* fails
UniqueViolation(v) == v \in GetAppliedMigrations

\* tx.Exec(recordQuery, migration.Version): the INSERT waits for an uncommitted
\* insert of the same version and fails on the primary key when the version is
\* committed; the DELETE removes the row at commit
RecordMigration(m) ==
  /\ mig[m].pc = "record"
  /\ \A o \in Migrators \ {m} : ~(mig[o].rec /\ mig[o].cur = mig[m].cur)
  /\ \/ /\ IF mig[m].cmd = "up" /\ UniqueViolation(mig[m].cur)
           THEN MigrateFail(m, "failed to record migration")
           ELSE /\ mig' = [mig EXCEPT ![m].pc = "commit", ![m].rec = TRUE]
                /\ UNCHANGED <<schema_migrations, schemaLog>>
        /\ UNCHANGED faults
     \/ /\ Fault
        /\ MigrateFail(m, IF mig[m].cmd = "up" THEN "failed to record migration"
                          ELSE "failed to remove migration record")
  /\ UNCHANGED <<callVars, migrations>>

\* tx.Commit(): the SQL of the migration and the change of schema_migrations
\* take effect together
CommitMigration(m) ==
  /\ mig[m].pc = "commit"
  /\ \/ /\ schemaLog' = Append(schemaLog, <<mig[m].cmd, mig[m].cur>>)
        /\ schema_migrations' =
             IF mig[m].cmd = "up"
             THEN schema_migrations \cup {[version |-> mig[m].cur, dirty |-> InsertedDirty,
                                         applied_at |-> Len(schemaLog) + 1]}
             ELSE {r \in schema_migrations : r.version # mig[m].cur}
        /\ Advance(m)
        /\ UNCHANGED faults
     \/ /\ Fault
        /\ MigrateFail(m, CommitError)
  /\ UNCHANGED <<callVars, migrations>>

\* a database no migration has been applied to, and any set of migrations
\* loaded from the directory
InitFresh ==
  /\ OrdersInit
  /\ \E L \in SUBSET Versions : migrations = Ascending(L)
  /\ schema_migrations = {}
  /\ schemaLog = <<>>
  /\ mig = [m \in Migrators |-> IdleMigrator]
  /\ directory = {}
  /\ loader = IdleLoader

NextMigrate ==
  \/ \E cmd \in {"up", "down"}, steps \in 0..(NumMigrations + 1) :
       MigrateStart(1, cmd, IF cmd = "up" THEN 0 ELSE steps)
  \/ InitializeMigrationTable(1)
  \/ ReadApplied(1)
  \/ Loop(1)
  \/ CheckApplied(1)
  \/ BeginMigration(1)
  \/ ExecMigration(1)
  \/ RecordMigration(1)
  \/ CommitMigration(1)

\* migrate commands run one after the other against one database
SpecMigrate == InitMigrate /\ [][NextMigrate]_vars

\* migrate commands run one after the other against a database that starts
\* without any applied migration
SpecFresh == InitFresh /\ [][NextMigrate]_vars

NextStartup ==
  \/ \E m \in Migrators : MigrateStart(m, "up", 0)
  \/ \E m \in Migrators : InitializeMigrationTable(m)
  \/ \E m \in Migrators : ReadApplied(m)
  \/ \E m \in Migrators : Loop(m)
  \/ \E m \in Migrators : CheckApplied(m)
  \/ \E m \in Migrators : BeginMigration(m)
  \/ \E m \in Migrators : ExecMigration(m)
  \/ \E m \in Migrators : RecordMigration(m)
  \/ \E m \in Migrators : CommitMigration(m)

\* two processes that run MigrateUp at their startup (RunMigrationsOnStartup),
\* concurrently, against one database
SpecStartup == InitMigrate /\ [][NextStartup]_vars

\* --------------------------------------------------------- LoadMigrations

\* File names are sequences of characters; the content of a file is
\* identified with the name of the file it was read from.

\* the byte a character is encoded by (os.ReadDir returns the entries sorted
\* by file name)
CharCode(ch) ==
  CASE ch = "+" -> 43 [] ch = "-" -> 45 [] ch = "." -> 46
    [] ch = "0" -> 48 [] ch = "1" -> 49 [] ch = "2" -> 50 [] ch = "3" -> 51
    [] ch = "_" -> 95 [] ch = "a" -> 97 [] ch = "b" -> 98 [] ch = "c" -> 99
    [] ch = "d" -> 100 [] ch = "k" -> 107 [] ch = "l" -> 108 [] ch = "n" -> 110
    [] ch = "o" -> 111 [] ch = "p" -> 112 [] ch = "q" -> 113 [] ch = "s" -> 115
    [] ch = "t" -> 116 [] ch = "u" -> 117 [] ch = "w" -> 119 [] ch = "x" -> 120

RECURSIVE NameLess(_, _)
\* the order of file names: byte by byte, a proper prefix first
NameLess(a, b) ==
  IF Len(b) = 0 THEN FALSE
  ELSE IF Len(a) = 0 THEN TRUE
  ELSE IF a[1] # b[1] THEN CharCode(a[1]) < CharCode(b[1])
  ELSE NameLess(Tail(a), Tail(b))

RECURSIVE ReadDir(_)
\* os.ReadDir: the entries of the directory sorted by file name
ReadDir(D) ==
  IF D = {} THEN <<>>
  ELSE LET f == CHOOSE x \in D : \A y \in D \ {x} : NameLess(x.name, y.name)
       IN <<f>> \o ReadDir(D \ {f})

\* strings.HasSuffix
HasSuffix(str, suffix) ==
  Len(str) >= Len(suffix) /\ SubSeq(str, Len(str) - Len(suffix) + 1, Len(str)) = suffix

\* strings.TrimSuffix
TrimSuffix(str, suffix) ==
  IF HasSuffix(str, suffix) THEN SubSeq(str, 1, Len(str) - Len(suffix)) ELSE str

\* the first position of the character sep in str, 0 if there is none
Index(str, sep) ==
  IF \E i \in 1..Len(str) : str[i] = sep
  THEN CHOOSE i \in 1..Len(str) : str[i] = sep /\ \A j \in 1..(i - 1) : str[j] # sep
  ELSE 0

RECURSIVE Split(_, _)
\* strings.Split(str, sep) for a separator of one character
Split(str, sep) ==
  IF Index(str, sep) = 0 THEN <<str>>
  ELSE <<SubSeq(str, 1, Index(str, sep) - 1)>>
         \o Split(SubSeq(str, Index(str, sep) + 1, Len(str)), sep)

\* strings.SplitN(str, sep, 2)
SplitN2(str, sep) ==
  IF Index(str, sep) = 0 THEN <<str>>
  ELSE <<SubSeq(str, 1, Index(str, sep) - 1), SubSeq(str, Index(str, sep) + 1, Len(str))>>

\* the decimal digits
DigitChars == {"0", "1", "2", "3"}

RECURSIVE DigitsValue(_)
\* the number written by a sequence of decimal digits
DigitsValue(str) ==
  IF Len(str) = 0 THEN 0
  ELSE 10 * DigitsValue(SubSeq(str, 1, Len(str) - 1)) + (CharCode(str[Len(str)]) - CharCode("0"))

\* strconv.ParseInt(str, 10, 64): an optional sign and at least one digit
ParseInt(str) ==
  LET signed == Len(str) > 0 /\ str[1] \in {"+", "-"}
      digits == IF signed THEN Tail(str) ELSE str
  IN IF Len(digits) = 0 \/ \E i \in 1..Len(digits) : digits[i] \notin DigitChars
     THEN [ok |-> FALSE, value |-> 0]
     ELSE [ok |-> TRUE,
           value |-> IF signed /\ str[1] = "-" THEN 0 - DigitsValue(digits) ELSE DigitsValue(digits)]

\* ".sql"
SqlSuffix == <<".", "s", "q", "l">>

\* what the loop of LoadMigrations makes of a file name: skip, or the version,
\* the name and the direction of a migration file
ParseFileName(fileName) ==
  LET parts == Split(TrimSuffix(fileName, SqlSuffix), ".")
      versionParts == SplitN2(parts[1], "_")
  IN IF ~HasSuffix(fileName, SqlSuffix) \/ Len(parts) # 2 \/ Len(versionParts) # 2
        \/ ~ParseInt(versionParts[1]).ok
     THEN [skip |-> TRUE, version |-> 0, name |-> <<>>, direction |-> <<>>]
     ELSE [skip |-> FALSE, version |-> ParseInt(versionParts[1]).value,
           name |-> versionParts[2], direction |-> parts[2]]

\* the file names the directory is filled from
FileNames ==
  { <<"1", "_", "a", ".", "u", "p", ".", "s", "q", "l">>,
    <<"1", "_", "a", ".", "d", "o", "w", "n", ".", "s", "q", "l">>,
    <<"2", "_", "b", ".", "u", "p", ".", "s", "q", "l">>,
    <<"2", "_", "b", ".", "d", "o", "w", "n", ".", "s", "q", "l">>,
    <<"1", "_", "b", ".", "u", "p", ".", "s", "q", "l">>,
    <<"0", "1", "_", "a", ".", "d", "o", "w", "n", ".", "s", "q", "l">>,
    <<"1", "_", "a", ".", "b", "a", "k", ".", "s", "q", "l">>,
    <<"3", "_", "c", ".", "x", ".", "u", "p", ".", "s", "q", "l">>,
    <<"a", "_", "b", ".", "u", "p", ".", "s", "q", "l">>,
    <<"1", "a", ".", "u", "p", ".", "s", "q", "l">>,
    <<"a", ".", "s", "q", "l">>,
    <<"1", "_", "a", ".", "u", "p", ".", "t", "x", "t">> }

\* the directories LoadMigrations is given: files, and one that has a
\* subdirectory with the name of a migration file
Directories ==
  {D \in SUBSET ([name : FileNames, dir : {FALSE}]
                   \cup {[name |-> <<"3", "_", "c", ".", "u", "p", ".", "s", "q", "l">>, dir |-> TRUE]}) :
     Cardinality(D) <= MaxFiles}

\* a new manager and a migrations directory
InitLoad ==
  /\ OrdersInit
  /\ migrations = <<>>
  /\ schema_migrations = {}
  /\ schemaLog = <<>>
  /\ mig = [m \in Migrators |-> IdleMigrator]
  /\ directory \in Directories
  /\ loader = IdleLoader

\* files, err := os.ReadDir(migrationsPath)
ListDirectory ==
  /\ loader.pc = "idle"
  /\ \/ /\ loader' = [loader EXCEPT !.pc = "loop", !.todo = ReadDir(directory)]
        /\ UNCHANGED faults
     \/ /\ Fault
        /\ loader' = [loader EXCEPT !.pc = "failed", !.err = "failed to read migrations directory"]
  /\ UNCHANGED <<orderVars, migVars, directory, repo>>

\* the position in list of the migration with this version and name, 0 if none
FindMigration(list, version, name) ==
  IF \E i \in 1..Len(list) : list[i].version = version /\ list[i].name = name
  THEN CHOOSE i \in 1..Len(list) : /\ list[i].version = version /\ list[i].name = name
                                   /\ \A j \in 1..(i - 1) : ~(list[j].version = version /\ list[j].name = name)
  ELSE 0

\* switch direction: the content goes to UpSQL, to DownSQL, or nowhere
SetSQL(migration, direction, content) ==
  IF direction = <<"u", "p">> THEN [migration EXCEPT !.up = content]
  ELSE IF direction = <<"d", "o", "w", "n">> THEN [migration EXCEPT !.down = content]
  ELSE migration

\* one turn of the loop over the entries: skip the entry, or read the file and
\* merge it into the migration of its version and name, appended if new
LoadFile ==
  /\ loader.pc = "loop"
  /\ loader.todo # <<>>
  /\ LET file == Head(loader.todo)
         parsed == ParseFileName(file.name)
         found == FindMigration(loader.list, parsed.version, parsed.name)
         list == IF found = 0
                 THEN Append(loader.list, [version |-> parsed.version, name |-> parsed.name,
                                           up |-> <<>>, down |-> <<>>])
                 ELSE loader.list
         at == IF found = 0 THEN Len(list) ELSE found
     IN IF file.dir \/ parsed.skip
        THEN /\ loader' = [loader EXCEPT !.todo = Tail(@)]
             /\ UNCHANGED faults
        ELSE \/ /\ loader' = [loader EXCEPT !.todo = Tail(@),
                                            !.list = [list EXCEPT ![at] = SetSQL(@, parsed.direction, file.name)]]
                /\ UNCHANGED faults
             \/ /\ Fault
                /\ loader' = [loader EXCEPT !.pc = "failed", !.err = "failed to read migration file"]
  /\ UNCHANGED <<orderVars, migVars, directory, repo>>

\* list is in ascending order of version
SortedByVersion(list) == \A i \in 1..(Len(list) - 1) : list[i].version <= list[i + 1].version

\* sort.Slice(mm.migrations, ... Version < ... Version), which does not say in
\* which order it leaves migrations of the same version; mm.migrations is kept
\* by its versions
SortMigrations ==
  /\ loader.pc = "loop"
  /\ loader.todo = <<>>
  /\ \E perm \in [1..Len(loader.list) -> 1..Len(loader.list)] :
       /\ \A i, j \in 1..Len(loader.list) : i # j => perm[i] # perm[j]
       /\ SortedByVersion([i \in 1..Len(loader.list) |-> loader.list[perm[i]]])
       /\ loader' = [loader EXCEPT !.pc = "done",
                                   !.list = [i \in 1..Len(loader.list) |-> loader.list[perm[i]]]]
       /\ migrations' = [i \in 1..Len(loader.list) |-> loader.list[perm[i]].version]
  /\ UNCHANGED <<orderVars, faults, schema_migrations, schemaLog, mig, directory, repo>>

NextLoad ==
  \/ ListDirectory
  \/ LoadFile
  \/ SortMigrations

\* LoadMigrations called once on a new manager
SpecLoad == InitLoad /\ [][NextLoad]_vars

\* ---------------------------------------------------------------- claims

Done(c) == pc[c] = "done"

\* the call has returned an order summary
Succeeded(c) == Done(c) /\ err[c] = ""

\* the tickets provisioned for session s
Provisioned(s) == {t \in TicketIDs : db_tickets[t].session_id = s}

RECURSIVE ReservedBy(_, _)
\* number of tickets listed by the succeeded calls of C for session s
ReservedBy(C, s) ==
  IF C = {} THEN 0
  ELSE LET c == CHOOSE x \in C : TRUE
       IN (IF Succeeded(c) /\ req[c].concert_session_id = s THEN Len(resp[c].ticket_ids) ELSE 0)
          + ReservedBy(C \ {c}, s)

\* C1: no ticket identifier appears in the ticket lists of two different
\* successfully returned orders.
C1_NoTicketInTwoOrders ==
  \A c, d \in Calls :
    (c # d /\ Succeeded(c) /\ Succeeded(d))
      => Range(resp[c].ticket_ids) \cap Range(resp[d].ticket_ids) = {}

\* C2: for each session, the tickets listed in all committed orders of the
\* session number at most the tickets provisioned for it.
C2_ReservedWithinProvisioned ==
  \A s \in {x.id : x \in db_sessions} : ReservedBy(Calls, s) <= Cardinality(Provisioned(s))

\* C3: of two calls for one ticket each on session 2, which has exactly one
\* ticket, exactly one succeeds and the other is refused with "no tickets
\* available" (ResourceExhausted), when no storage operation fails.
C3_OneTicketTwoBuyers ==
  \A c, d \in Calls :
    (/\ c # d /\ Done(c) /\ Done(d)
     /\ Cardinality(Provisioned(2)) = 1
     /\ \A e \in Calls : (pc[e] # "idle" /\ req[e].concert_session_id = 2) => e \in {c, d}
     /\ req[c].concert_session_id = 2 /\ req[c].number_of_tickets = 1
     /\ req[d].concert_session_id = 2 /\ req[d].number_of_tickets = 1
     /\ code[c] # "Internal" /\ code[d] # "Internal")
      => \/ Succeeded(c) /\ code[d] = "ResourceExhausted" /\ err[d] = "no tickets available"
         \/ Succeeded(d) /\ code[c] = "ResourceExhausted" /\ err[c] = "no tickets available"

\* C4: a successful call lists exactly the requested quantity of tickets (a
\* session with fewer available tickets makes the call fail instead).
C4_ExactQuantity ==
  \A c \in Calls : Succeeded(c) => Len(resp[c].ticket_ids) = req[c].number_of_tickets

\* C7: while the unit of work of a call that has selected its tickets is open,
\* no other call's selection returns any of those tickets.
C7_SelectedRowsExclusive ==
  \A c, d \in Calls :
    (c # d /\ txOpen[c] /\ txOpen[d])
      => Range(tickets[c]) \cap Range(tickets[d]) = {}

\* C8: the total price of a successful call, as returned and as stored in its
\* order row, is the requested quantity times the unit price of the session.
C8_ExactPrice ==
  \A c \in Calls :
    Succeeded(c) =>
      LET total == req[c].number_of_tickets * GetConcertSessionByID(req[c].concert_session_id).price
      IN /\ resp[c].total_price = total
         /\ \E o \in db_orders : o.id = resp[c].order_id /\ o.total_price = total

\* the call c takes a step
Steps(c) == pc'[c] # pc[c] \/ updIdx'[c] # updIdx[c]

\* C5: a call that fails, at whichever step, leaves the committed ticket and
\* order rows as they were: every step of a call other than the one in which it
\* returns its order summary leaves both tables unchanged.
C5_FailedCallChangesNothing ==
  [][\A c \in Calls :
       (Steps(c) /\ ~(pc'[c] = "done" /\ err'[c] = ""))
         => (db_orders' = db_orders /\ db_tickets' = db_tickets)]_vars

\* a call, alone, inserted its order row, then failed and was rolled back
C5_Witness ==
  \E c \in Calls :
    /\ Done(c) /\ err[c] = StorageError
    /\ orderSeq = 1 /\ db_orders = {}
    /\ \A t \in TicketIDs : db_tickets[t].status = "available"
    /\ \A d \in Calls \ {c} : pc[d] = "idle"

\* the committed writes of call c to a table
WritesOf(c, table) == {w[3] : w \in {x \in committedWrites : x[1] = c /\ x[2] = table}}

\* C6: no partial commit: the order row of a call is committed if and only if
\* its ticket updates are, and then the call has succeeded, the row is the one of
\* its summary and the updated tickets are exactly the tickets it selected, all
\* pending.
C6_NoPartialCommit ==
  /\ \A c \in Calls :
       IF Succeeded(c)
       THEN /\ WritesOf(c, "orders") = {resp[c].order_id}
            /\ WritesOf(c, "tickets") = Range(resp[c].ticket_ids)
            /\ \E o \in db_orders : o.id = resp[c].order_id
            /\ \A t \in Range(resp[c].ticket_ids) : db_tickets[t].status = "pending"
       ELSE WritesOf(c, "orders") = {} /\ WritesOf(c, "tickets") = {}
  /\ \A o \in db_orders : \E c \in Calls : Succeeded(c) /\ resp[c].order_id = o.id

\* one call has committed an order of several tickets while another holds an
\* uncommitted order row and uncommitted ticket updates
C6_Witness ==
  \E c, d \in Calls :
    /\ Succeeded(c) /\ Len(resp[c].ticket_ids) >= 2
    /\ pc[d] = "commit" /\ txOrders[d] # {} /\ \E t \in TicketIDs : txTickets[d][t] = "pending"

\* the store is as it was provisioned
StoreUntouched ==
  /\ db_orders = {} /\ committedWrites = {} /\ orderSeq = 0
  /\ \A t \in TicketIDs : db_tickets[t].status = "available" /\ rowLock[t] = 0
  /\ \A c \in Calls : ~txOpen[c] /\ txOrders[c] = {}

\* C9: a request whose quantity is zero, negative or above 3 is refused with a
\* validation error (InvalidArgument at the RPC handler) before any unit of work
\* is begun and before anything is read; the store is untouched.
C9_QuantityValidated ==
  \A c \in Calls :
    (pc[c] # "idle" /\ (req[c].number_of_tickets <= 0 \/ req[c].number_of_tickets > 3))
      => /\ Done(c) /\ ~touched[c] /\ resp[c] = NoResponse
         /\ via[c] = "grpc" => code[c] = "InvalidArgument"
         /\ via[c] = "service" => err[c] \in {"number of tickets must be greater than 0",
                                              "maximum 3 tickets allowed per order"}
         /\ StoreUntouched

\* four tickets were asked for at the service, ids well-formed, and the call was refused
C9_Witness ==
  \E c \in Calls :
    /\ Done(c) /\ via[c] = "service" /\ req[c].number_of_tickets = 4
    /\ req[c].user_id > 0 /\ req[c].concert_session_id = 1
    /\ err[c] = "maximum 3 tickets allowed per order"

\* C10: a request at the RPC handler whose buyer id or session id is zero or
\* negative is refused with InvalidArgument at once, whatever its other fields,
\* with no storage access and no side effect.
C10_IdsValidated ==
  \A c \in Calls :
    (pc[c] # "idle" /\ via[c] = "grpc" /\ (req[c].user_id <= 0 \/ req[c].concert_session_id <= 0))
      => /\ Done(c) /\ code[c] = "InvalidArgument"
         /\ ~touched[c] /\ resp[c] = NoResponse
         /\ StoreUntouched

\* a request for an available ticket, buyer well-formed, session id -1, was refused
C10_Witness ==
  \E c \in Calls :
    /\ Done(c) /\ via[c] = "grpc" /\ code[c] = "InvalidArgument"
    /\ req[c].user_id = 1 /\ req[c].concert_session_id = -1 /\ req[c].number_of_tickets = 1

\* C11: a well-formed request that names a session that does not exist fails
\* with "concert session not found", reported as NotFound (unless a storage
\* operation of the call itself failed first); the call never gets past the
\* session lookup: it inserts no order row, locks no ticket row, writes no ticket
\* and returns no summary.
C11_MissingSessionNotFound ==
  \A c \in Calls :
    (pc[c] # "idle" /\ ~SessionExists(req[c].concert_session_id))
      => /\ pc[c] \in {"begin", "session", "done"}
         /\ txOrders[c] = {} /\ txTickets[c] = NoWrites
         /\ \A t \in TicketIDs : rowLock[t] # c
         /\ WritesOf(c, "orders") = {} /\ WritesOf(c, "tickets") = {}
         /\ Done(c) => /\ resp[c] = NoResponse
                       /\ err[c] \notin StorageErrors
                            => err[c] = "concert session not found" /\ code[c] = "NotFound"
                       /\ err[c] \in StorageErrors => code[c] = "Internal"

\* a call for the missing session 3 was refused with NotFound while another
\* call holds uncommitted ticket updates
C11_Witness ==
  \E c, d \in Calls :
    /\ Done(c) /\ req[c].concert_session_id = 3 /\ code[c] = "NotFound"
    /\ pc[d] = "commit" /\ \E t \in TicketIDs : rowLock[t] = d

\* the tickets of session s that are available in the committed version
AvailableIn(s) ==
  {t \in TicketIDs : db_tickets[t].session_id = s /\ db_tickets[t].status = "available"}

\* C12: a call whose selection finds that the existing session it names has no
\* available ticket fails with "no tickets available", reported as
\* ResourceExhausted, without a summary, and the step leaves the order table, the
\* order sequence and every ticket as they were.
C12_NoTicketsExhausted ==
  [][\A c \in Calls :
       (/\ pc[c] = "select" /\ pc'[c] # "select"
        /\ SessionExists(req[c].concert_session_id)
        /\ AvailableIn(req[c].concert_session_id) = {}
        /\ faults' = faults)
         => /\ pc'[c] = "done"
            /\ err'[c] = "no tickets available" /\ code'[c] = "ResourceExhausted"
            /\ resp'[c] = NoResponse
            /\ db_orders' = db_orders /\ db_tickets' = db_tickets /\ orderSeq' = orderSeq
            /\ txOrders'[c] = {} /\ \A t \in TicketIDs : rowLock'[t] # c]_vars

\* the only ticket of session 2 is pending and a call for session 2 was refused
\* with ResourceExhausted
C12_Witness ==
  \E c \in Calls :
    /\ Done(c) /\ req[c].concert_session_id = 2
    /\ err[c] = "no tickets available" /\ code[c] = "ResourceExhausted"
    /\ db_tickets[2].status = "pending" /\ AvailableIn(2) = {}

\* C13: at the RPC handler every failure is reported under the code of its
\* cause and of no other: a request refused by validation as InvalidArgument, a
\* session lookup that finds no row as NotFound, a selection that finds no ticket
\* as ResourceExhausted, and a failed storage operation (begin, lookup,
\* selection, insert, update, commit) as Internal; there is no other failure.
C13_OneCodePerCause ==
  [][\A c \in Calls :
       (pc[c] # "done" /\ pc'[c] = "done" /\ via'[c] = "grpc" /\ err'[c] # "")
         => code'[c] = (IF pc[c] = "idle" THEN "InvalidArgument"
                        ELSE IF faults' # faults THEN "Internal"
                        ELSE IF pc[c] = "session" THEN "NotFound"
                        ELSE IF pc[c] = "select" THEN "ResourceExhausted"
                        ELSE "no such failure")]_vars

\* on a store whose session 1 is sold out, a well-formed request for it at the
\* handler was refused with ResourceExhausted
C13_Witness ==
  \E c \in Calls :
    /\ Done(c) /\ via[c] = "grpc" /\ code[c] = "ResourceExhausted"
    /\ req[c].concert_session_id = 1
    /\ \A t \in Provisioned(1) : db_tickets[t].status = "sold"

\* C14: every UPDATE of a ticket by CreateOrder finds the ticket available in
\* the committed version at the moment it writes: the only transition it
\* performs is available -> pending.
C14_OnlyAvailableToPending ==
  [][\A c \in Calls :
       (pc[c] = "update" /\ updIdx'[c] = updIdx[c] + 1)
         => db_tickets[tickets[c][updIdx[c]]].status = "available"]_vars

\* C15: a successful call for q tickets of a session that had a available
\* tickets (here: all the tickets provisioned for it) lists q distinct tickets
\* and leaves a - q tickets of the session available.
C15_QuantityReserved ==
  \A c \in Calls :
    Succeeded(c) =>
      LET s == req[c].concert_session_id
          q == req[c].number_of_tickets
          a == Cardinality(Provisioned(s))
      IN /\ Len(resp[c].ticket_ids) = q
         /\ Cardinality(Range(resp[c].ticket_ids)) = q
         /\ Cardinality(AvailableIn(s)) = a - q

\* C16: the tickets a call selects are available tickets of the session it
\* names and of no other, in ascending order of identifier, and no available
\* ticket of the session that it leaves out has a lower identifier than one
\* it takes; the selection is kept as it is until the call returns, and the
\* ticket ids of the summary are the selected tickets in the same order.
C16_LowestAvailableInOrder ==
  [][\A c \in Calls :
       /\ (pc[c] = "select" /\ pc'[c] = "insert")
            => LET s == req[c].concert_session_id
                   sel == tickets'[c]
               IN /\ \A i, j \in 1..Len(sel) : i < j => sel[i] < sel[j]
                  /\ Range(sel) \subseteq AvailableIn(s)
                  /\ \A u \in AvailableIn(s) \ Range(sel) : \A t \in Range(sel) : t < u
       /\ (pc[c] \in {"insert", "update", "commit"} /\ pc'[c] # "done")
            => tickets'[c] = tickets[c]
       /\ (pc[c] = "commit" /\ pc'[c] = "done" /\ err'[c] = "")
            => resp'[c].ticket_ids = tickets[c]]_vars

\* ticket 3 was sold before the call; the call for two tickets of session 1
\* returned tickets 1 and 4, in this order
C16_Witness ==
  \E c \in Calls :
    /\ Succeeded(c) /\ req[c].concert_session_id = 1 /\ req[c].number_of_tickets = 2
    /\ resp[c].ticket_ids = <<1, 4>> /\ db_tickets[3].status = "sold"

\* C17: the summary of a successful call carries a positive order id, which is
\* the id of exactly one committed order row, the status "pending", a non-empty
\* list of ticket ids, and the total price and creation timestamp of that row; a
\* call that failed has returned no summary.
C17_SummaryPopulated ==
  \A c \in Calls :
    /\ Succeeded(c)
         => /\ resp[c].order_id > 0
            /\ resp[c].status = "pending"
            /\ Len(resp[c].ticket_ids) > 0
            /\ Cardinality({o \in db_orders : o.id = resp[c].order_id}) = 1
            /\ \E o \in db_orders :
                 /\ o.id = resp[c].order_id /\ o.status = resp[c].status
                 /\ o.total_price = resp[c].total_price
                 /\ o.created_at = resp[c].created_at /\ o.created_at > 0
    /\ (Done(c) /\ err[c] # "") => resp[c] = NoResponse

\* the second order, of three tickets, was returned, and another call failed
C17_Witness ==
  \E c, d \in Calls :
    /\ Succeeded(c) /\ resp[c].order_id = 2 /\ Len(resp[c].ticket_ids) = 3
    /\ Done(d) /\ err[d] # "" /\ resp[d] = NoResponse

\* C18: when Beginx or Commit fails, the call returns the error, without a
\* summary, the handler reports Internal, and nothing the call wrote is in the
\* tables or can still reach them: the order and ticket rows are as before the
\* step, the transaction is gone with its writes and its locks, and no committed
\* write belongs to the call.
C18_BeginCommitFailure ==
  [][\A c \in Calls :
       (pc[c] \in {"begin", "commit"} /\ pc'[c] = "done" /\ err'[c] # "")
         => /\ err'[c] = (IF pc[c] = "begin" THEN BeginError ELSE CommitError)
            /\ code'[c] = "Internal" /\ resp'[c] = NoResponse
            /\ db_orders' = db_orders /\ db_tickets' = db_tickets
            /\ ~txOpen'[c] /\ txOrders'[c] = {} /\ txTickets'[c] = NoWrites
            /\ \A t \in TicketIDs : rowLock'[t] # c
            /\ \A w \in committedWrites' : w[1] # c]_vars

\* the commit of a call failed after it had inserted its order row and updated
\* its tickets: no order is committed and every ticket is available
C18_Witness ==
  \E c \in Calls :
    /\ Done(c) /\ err[c] = CommitError /\ code[c] = "Internal"
    /\ orderSeq = 1 /\ db_orders = {}
    /\ \A t \in TicketIDs : db_tickets[t].status = "available" /\ rowLock[t] = 0

\* C19: no step of any call, successful or failed, updates or deletes a
\* committed order row: every row of the table is still there, with the same id,
\* status, total price and creation timestamp, after the step, and a row that the
\* step adds has an id that no committed row had.
C19_OrdersNeverChanged ==
  [][/\ db_orders \subseteq db_orders'
     /\ \A o \in db_orders' \ db_orders : \A p \in db_orders : p.id # o.id]_vars

\* two calls have committed their orders one after the other, and the two rows
\* are in the table
C19_Witness ==
  /\ \A c \in Calls : Succeeded(c)
  /\ {o.id : o \in db_orders} = {1, 2}
  /\ \E o, p \in db_orders : o.id = 1 /\ p.id = 2 /\ o.created_at < p.created_at

\* C20: no step changes the table of concert sessions or the session a ticket
\* belongs to, and a step of a call leaves every ticket of every session other
\* than the one the call names as it was: its committed row, its lock, and no
\* write of the call's transaction is for it.
C20_OtherSessionsUntouched ==
  [][/\ db_sessions' = db_sessions
     /\ \A t \in TicketIDs : db_tickets'[t].session_id = db_tickets[t].session_id
     /\ \A c \in Calls :
          Steps(c) =>
            \A t \in TicketIDs :
              db_tickets[t].session_id # req'[c].concert_session_id
                => /\ db_tickets'[t] = db_tickets[t]
                   /\ rowLock'[t] = rowLock[t]
                   /\ txTickets'[c][t] = ""]_vars

\* a call has taken the three tickets of session 1 and the ticket of session 2
\* is as provisioned
C20_Witness ==
  \E c \in Calls :
    /\ Succeeded(c) /\ req[c].concert_session_id = 1 /\ Len(resp[c].ticket_ids) = 3
    /\ db_tickets[2] = [session_id |-> 2, status |-> "available"] /\ rowLock[2] = 0
    /\ \A t \in Range(resp[c].ticket_ids) : db_tickets[t].session_id = 1

\* C21: the context of the caller has no effect on CreateOrder: the step that
\* cancels it changes nothing else (a committed order and its tickets stay as
\* they are), no call ever ends as cancelled, and a well-formed call for an
\* existing session with available tickets whose storage operations all work
\* returns its order, committed, whether its context is cancelled or not.
C21_ContextIgnored ==
  [][\A c \in Calls :
       /\ ctx'[c] # ctx[c]
            => /\ db_orders' = db_orders /\ db_tickets' = db_tickets /\ rowLock' = rowLock
               /\ txOpen' = txOpen /\ txOrders' = txOrders /\ txTickets' = txTickets
               /\ pc' = pc /\ err' = err /\ code' = code /\ resp' = resp
       /\ pc'[c] = "done" => code'[c] # "Canceled" /\ err'[c] # "context canceled"
       /\ (/\ pc'[c] = "done" /\ faults' = 0
           /\ HandlerValidate(req'[c]) = "" /\ SessionExists(req'[c].concert_session_id))
            => /\ err'[c] = "" /\ code'[c] = "OK"
               /\ \E o \in db_orders' : o.id = resp'[c].order_id]_vars

\* a call whose context is cancelled has returned its order, and the order row
\* is in the table
C21_Witness ==
  \E c \in Calls :
    /\ ctx[c] = "cancelled" /\ Succeeded(c) /\ code[c] = "OK"
    /\ \E o \in db_orders : o.id = resp[c].order_id
    /\ \A t \in Range(resp[c].ticket_ids) : db_tickets[t].status = "pending"

\* the positions of CreateOrder, in program order
PcRank(p) ==
  CASE p = "idle" -> 0 [] p = "begin" -> 1 [] p = "session" -> 2 [] p = "select" -> 3
    [] p = "insert" -> 4 [] p = "update" -> 5 [] p = "commit" -> 6 [] p = "done" -> 7

\* C22: a call never goes back in its program: it begins a transaction only
\* from its one passage through Beginx and inserts an order row (one value of
\* the sequence) only in its one passage through the insert; the step in which
\* a storage operation fails ends the call at once, with the error of that
\* operation and no summary; a call that has returned does nothing more.
C22_NoRetry ==
  [][\A c \in Calls :
       /\ PcRank(pc'[c]) >= PcRank(pc[c])
       /\ (txOpen'[c] /\ ~txOpen[c]) => (pc[c] = "begin" /\ pc'[c] = "session")
       /\ (Steps(c) /\ orderSeq' # orderSeq)
            => (pc[c] = "insert" /\ pc'[c] = "update" /\ orderSeq' = orderSeq + 1)
       /\ (Steps(c) /\ txOrders'[c] # txOrders[c] /\ txOrders'[c] # {})
            => (pc[c] = "insert" /\ txOrders[c] = {} /\ Cardinality(txOrders'[c]) = 1)
       /\ (Steps(c) /\ faults' # faults)
            => /\ pc'[c] = "done" /\ resp'[c] = NoResponse /\ ~txOpen'[c]
               /\ err'[c] = (IF pc[c] = "begin" THEN BeginError
                             ELSE IF pc[c] = "commit" THEN CommitError ELSE StorageError)
       /\ pc[c] = "done" => (pc'[c] = "done" /\ err'[c] = err[c] /\ resp'[c] = resp[c])]_vars

\* one call has returned its order; the other inserted its order row, then
\* failed on a ticket update or at its commit and returned that error: the
\* sequence has given two values and one order is committed
C22_Witness ==
  \E c, d \in Calls :
    /\ Succeeded(c) /\ Done(d) /\ err[d] \in {StorageError, CommitError}
    /\ orderSeq = 2 /\ Cardinality(db_orders) = 1 /\ faults = 1

\* C23: the lookup of an id that no session has, zero, negative or positive,
\* yields the nil session, and the lookup of an id that a session has yields
\* that session; the table being unchanged, the lookup gives this result each
\* time. A call at the service for an id that no session has, whose request
\* passes the validation and whose storage operations work, gets past no more
\* than the lookup and ends with the not-found error, never a validation error.
C23_LookupNotFound ==
  /\ \A id \in SessionIDs :
       IF SessionExists(id)
       THEN GetConcertSessionByID(id) \in db_sessions /\ GetConcertSessionByID(id).id = id
       ELSE GetConcertSessionByID(id) = NoSession
  /\ \A c \in Calls :
       (pc[c] # "idle" /\ via[c] = "service" /\ ServiceValidate(req[c]) = "")
         => IF SessionExists(req[c].concert_session_id)
            THEN pc[c] \in {"select", "insert", "update", "commit"}
                   => concertSession[c] = GetConcertSessionByID(req[c].concert_session_id)
            ELSE /\ pc[c] \in {"begin", "session", "done"}
                 /\ (Done(c) /\ err[c] \notin StorageErrors) => err[c] = "concert session not found"

\* the lookup of the session id -1 at the service found nothing: the call
\* ended with the not-found error
C23_Witness ==
  \E c \in Calls :
    /\ Done(c) /\ via[c] = "service" /\ req[c].concert_session_id = -1
    /\ touched[c] /\ err[c] = "concert session not found"
    /\ GetConcertSessionByID(-1) = NoSession /\ GetConcertSessionByID(0) = NoSession

\* C24: a call at the service whose request has a user id or a session id that
\* is zero or negative returns an error and no summary.
C24_ServiceRejectsBadIds ==
  \A c \in Calls :
    (Done(c) /\ via[c] = "service" /\ (req[c].user_id <= 0 \/ req[c].concert_session_id <= 0))
      => (err[c] # "" /\ resp[c] = NoResponse)

\* C25: a call at the service for a session id that no session has returns no
\* summary and the error "concert session not found", whatever the other
\* fields of the request, a quantity of zero included (storage failures apart).
C25_ServiceSessionNotFound ==
  \A c \in Calls :
    (/\ Done(c) /\ via[c] = "service" /\ ~SessionExists(req[c].concert_session_id)
     /\ err[c] \notin StorageErrors)
      => (err[c] = "concert session not found" /\ resp[c] = NoResponse)

\* C30: WithTransaction commits exactly when the callback has returned nil.
\* When the callback returns an error (the lookup, the selection, the insert
\* or an update failed, or found nothing), the step leaves the tables as they
\* were, drops every write made through the transaction and returns that same
\* error. The tables change in a step of a call only at its commit, after the
\* callback has run to its end, and then the order row and all the ticket
\* updates of the transaction become visible in that one step; while the
\* transaction is open none of them is.
C30_CommitIffCallbackNil ==
  [][\A c \in Calls :
       /\ (pc[c] \in {"session", "select", "insert", "update"} /\ pc'[c] = "done")
            => /\ db_orders' = db_orders /\ db_tickets' = db_tickets
               /\ committedWrites' = committedWrites
               /\ ~txOpen'[c] /\ txOrders'[c] = {} /\ txTickets'[c] = NoWrites
               /\ err'[c] = (IF faults' # faults THEN StorageError
                             ELSE IF pc[c] = "session" THEN "concert session not found"
                             ELSE "no tickets available")
       /\ (Steps(c) /\ (db_orders' # db_orders \/ db_tickets' # db_tickets))
            => /\ pc[c] = "commit" /\ pc'[c] = "done" /\ err'[c] = ""
               /\ updIdx[c] = Len(tickets[c]) + 1
       /\ (pc[c] = "commit" /\ pc'[c] = "done" /\ err'[c] = "")
            => /\ txOrders[c] = {order[c]} /\ db_orders' = db_orders \cup {order[c]}
               /\ {t \in TicketIDs : txTickets[c][t] # ""} = Range(tickets[c])
               /\ \A t \in TicketIDs :
                    db_tickets'[t] = IF t \in Range(tickets[c])
                                     THEN [db_tickets[t] EXCEPT !.status = "pending"]
                                     ELSE db_tickets[t]
       /\ txOpen[c] => (order[c] \notin db_orders /\ \A w \in committedWrites : w[1] # c)]_vars

\* a call inserted the order row 1 and failed in its callback, the row is not
\* in the table; the other call has committed the order row 2 with two tickets
C30_Witness ==
  \E c, d \in Calls :
    /\ Done(c) /\ err[c] = StorageError
    /\ Succeeded(d) /\ resp[d].order_id = 2 /\ Len(resp[d].ticket_ids) = 2
    /\ {o.id : o \in db_orders} = {2}
    /\ \A t \in Range(resp[d].ticket_ids) : db_tickets[t].status = "pending"

\* what the command of migrator m has committed so far, in order
Committed(m) == SubSeq(schemaLog, mig[m].base + 1, Len(schemaLog))

\* the versions of the loaded migrations
Loaded == Range(migrations)

\* the command of migrator m has returned nil
Returned(m, cmd) == mig[m].pc = "done" /\ mig[m].cmd = cmd /\ mig[m].err = ""

Failed(m, cmd) == mig[m].pc = "done" /\ mig[m].cmd = cmd /\ mig[m].err # ""

\* C27: applying a migration is all-or-nothing: when its up SQL or the insert
\* of its record fails, neither the schema change nor the record persists,
\* the error is returned, and MigrateUp stops without applying a later
\* migration; the schema change and the record appear together at the commit
C27_AllOrNothing ==
  [][/\ (mig[1].pc \in {"exec", "record"} /\ mig[1].cmd = "up" /\ faults' # faults) =>
          /\ UNCHANGED <<schema_migrations, schemaLog>>
          /\ (Failed(1, "up"))'
          /\ mig'[1].err = (IF mig[1].pc = "exec" THEN "failed to apply migration"
                            ELSE "failed to record migration")
          /\ mig'[1].failed = mig[1].cur
          /\ mig[1].cur \notin GetAppliedMigrations'
          /\ \A i \in 1..Len(Committed(1)') : Committed(1)'[i][2] < mig[1].cur
     /\ mig[1].pc = "done" => UNCHANGED <<schema_migrations, schemaLog>>
     /\ (mig[1].cmd = "up" /\ (schemaLog' # schemaLog \/ schema_migrations' # schema_migrations)) =>
          /\ mig[1].pc = "commit"
          /\ schemaLog' = Append(schemaLog, <<"up", mig[1].cur>>)
          /\ GetAppliedMigrations' = GetAppliedMigrations \cup {mig[1].cur}
          /\ mig[1].cur \notin GetAppliedMigrations]_vars

\* MigrateUp has applied one migration, then the insert of the next one's
\* record failed: that version is not recorded, and a later one is still pending
C27_Witness ==
  /\ Failed(1, "up")
  /\ mig[1].err = "failed to record migration"
  /\ Len(Committed(1)) >= 1
  /\ mig[1].failed \notin GetAppliedMigrations
  /\ \E v \in Loaded \ GetAppliedMigrations : v > mig[1].failed

\* the smaller of two numbers
Min(a, b) == IF a <= b THEN a ELSE b

\* the loaded migrations the command of migrator m found applied
FoundApplied(m) == Loaded \cap mig[m].applied

C29_FailedIsDirty ==
  (Failed(1, "up") /\ mig[1].failed # 0) =>
    \E r \in schema_migrations : r.version = mig[1].failed /\ r.dirty

\* C36: in every successful response the total price is the unit price of the
\* session times the number of ticket ids of that response, and the order row
\* stored under the order id of the response carries the same total
C36_TotalMatchesTickets ==
  \A c \in Calls :
    Succeeded(c) =>
      /\ resp[c].total_price
           = GetConcertSessionByID(req[c].concert_session_id).price * Len(resp[c].ticket_ids)
      /\ \E o \in db_orders : o.id = resp[c].order_id
      /\ \A o \in db_orders : o.id = resp[c].order_id => o.total_price = resp[c].total_price

\* a call that asked for three tickets has succeeded with two, priced as two
C36_Witness ==
  \E c \in Calls :
    /\ Succeeded(c)
    /\ req[c].number_of_tickets = 3
    /\ Len(resp[c].ticket_ids) = 2
    /\ resp[c].total_price = 2 * 9999

\* C37: starting from an empty schema_migrations, after any sequence of
\* MigrateUp and MigrateDown commands, failed ones included, the applied versions
\* are a prefix of the loaded versions in ascending order: no migration is
\* applied while a loaded migration of a lower version is not
C37_AppliedIsPrefix ==
  /\ GetAppliedMigrations \subseteq Loaded
  /\ \A v \in GetAppliedMigrations : \A u \in Loaded : u < v => u \in GetAppliedMigrations

\* of three loaded migrations a MigrateUp has applied two and failed on the
\* third, then MigrateDown has rolled back the second: only the first is applied
C37_Witness ==
  /\ Loaded = {1, 2, 3}
  /\ Returned(1, "down")
  /\ faults = 1
  /\ schemaLog = <<(<<"up", 1>>), (<<"up", 2>>), (<<"down", 2>>)>>
  /\ GetAppliedMigrations = {1}

\* the committed executions of the up SQL of version v
UpExecutions(v) == {i \in 1..Len(schemaLog) : schemaLog[i] = <<"up", v>>}

\* C38: when two MigrateUp run concurrently against one database, the up SQL
\* of each migration takes effect at most once (not at all when the version was
\* recorded before), and schema_migrations holds at most one row per version
C38_AtMostOnce ==
  /\ \A v \in Versions : Cardinality(UpExecutions(v)) <= 1
  /\ \A r \in schema_migrations : r.applied_at = 0 => UpExecutions(r.version) = {}
  /\ \A r1, r2 \in schema_migrations : r1.version = r2.version => r1 = r2

\* both processes have run the up SQL of the same pending migration; one has
\* committed it, the insert of the other met the committed row and its
\* transaction was rolled back
C38_Witness ==
  \E m \in Migrators :
    /\ Failed(m, "up")
    /\ mig[m].err = "failed to record migration"
    /\ faults = 0
    /\ Cardinality(UpExecutions(mig[m].failed)) = 1
    /\ \E r \in schema_migrations : r.version = mig[m].failed /\ r.applied_at # 0

\* the files of the directory that follow the naming convention
\* {version}_{name}.{direction}.sql, direction being up or down
MigrationFiles ==
  {f \in directory : /\ ~f.dir
                     /\ ~ParseFileName(f.name).skip
                     /\ ParseFileName(f.name).direction \in {<<"u", "p">>, <<"d", "o", "w", "n">>}}

\* the content of the file of this version, name and direction, empty if there
\* is no such file
ContentOf(version, name, direction) ==
  LET fs == {f \in MigrationFiles : /\ ParseFileName(f.name).version = version
                                    /\ ParseFileName(f.name).name = name
                                    /\ ParseFileName(f.name).direction = direction}
  IN IF fs = {} THEN <<>> ELSE (CHOOSE f \in fs : \A g \in fs \ {f} : NameLess(g.name, f.name)).name

\* C34: after LoadMigrations the list holds one migration per well-formed
\* {version}_{name} file pair, with the up and the down SQL of the pair, files
\* that do not follow the naming convention have left nothing in it, and it is
\* strictly ascending by version
C34_LoadedList ==
  loader.pc = "done" =>
    /\ {<<loader.list[i].version, loader.list[i].name>> : i \in 1..Len(loader.list)}
         = {<<ParseFileName(f.name).version, ParseFileName(f.name).name>> : f \in MigrationFiles}
    /\ \A i, j \in 1..Len(loader.list) :
         (loader.list[i].version = loader.list[j].version /\ loader.list[i].name = loader.list[j].name)
           => i = j
    /\ \A i \in 1..Len(loader.list) :
         /\ loader.list[i].up = ContentOf(loader.list[i].version, loader.list[i].name, <<"u", "p">>)
         /\ loader.list[i].down
              = ContentOf(loader.list[i].version, loader.list[i].name, <<"d", "o", "w", "n">>)
    /\ \A i \in 1..(Len(loader.list) - 1) : loader.list[i].version < loader.list[i + 1].version

\* with files that all follow the convention and no version used under two
\* names, the list is the one C34 describes
ConventionalDirectoryLoaded ==
  (/\ \A f \in directory : f \in MigrationFiles
   /\ \A f, g \in directory : ParseFileName(f.name).version = ParseFileName(g.name).version
                                => ParseFileName(f.name).name = ParseFileName(g.name).name)
    => C34_LoadedList

\* C31: GetAvailableTicketsBySessionID(session, n) returns min(n, number of
\* available tickets of the session) tickets, each of them available and of
\* that session, none pending or sold (an empty result ends the call with
\* "no tickets available")
C31_AvailableOfSession ==
  [][(pc[1] = "select" /\ faults' = faults /\ pc'[1] # "select") =>
       LET available == AvailableIn(req[1].concert_session_id)
       IN IF available = {}
          THEN pc'[1] = "done" /\ err'[1] = "no tickets available"
          ELSE /\ pc'[1] = "insert"
               /\ Len(tickets'[1]) = Min(req[1].number_of_tickets, Cardinality(available))
               /\ Cardinality(Range(tickets'[1])) = Len(tickets'[1])
               /\ \A t \in Range(tickets'[1]) :
                    /\ db_tickets[t].status = "available"
                    /\ db_tickets[t].session_id = req[1].concert_session_id]_vars

\* the selection of a call that asked for three tickets has returned the two
\* available ones of a session whose third ticket is pending or sold
C31_Witness ==
  /\ pc[1] = "insert"
  /\ req[1].number_of_tickets = 3
  /\ Len(tickets[1]) = 2
  /\ \E t \in Provisioned(req[1].concert_session_id) : db_tickets[t].status # "available"

\* C32: when a unit of work that called UpdateTicketStatuses(list, s) commits,
\* every ticket of the list has status s whatever it had before and every other
\* ticket is as it was (so an empty list succeeds and changes nothing, and after
\* several such units of work the listed tickets have the status of the last);
\* before the commit no ticket changes
C32_ListedTicketsUpdated ==
  [][IF repo[1].pc = "commit" /\ faults' = faults
     THEN /\ repo'[1].pc = "done" /\ repo'[1].err = ""
          /\ db_tickets' = [t \in TicketIDs |->
                              IF t \in Range(repo[1].list)
                              THEN [session_id |-> db_tickets[t].session_id, status |-> repo[1].status]
                              ELSE db_tickets[t]]
     ELSE UNCHANGED db_tickets]_vars

\* a unit of work has set tickets 1, 2 and 3 to sold, and a second one has set
\* tickets 1 and 2 back to available: ticket 3 is still sold, ticket 4 untouched
C32_Witness ==
  /\ repo[1].pc = "done" /\ repo[1].err = "" /\ repo[1].runs = 2
  /\ repo[1].list = <<1, 2>> /\ repo[1].status = "available"
  /\ db_tickets[1].status = "available" /\ db_tickets[2].status = "available"
  /\ db_tickets[3].status = "sold"
  /\ db_tickets[4].status = "available"

\* the unit of work of c is running
Running(c) == repo[c].pc \in {"begin", "update", "commit"}

\* the update of c waits for a row lock that the transaction of d holds
WaitsFor(c, d) ==
  /\ c # d
  /\ repo[c].pc = "update"
  /\ rowLock[repo[c].list[repo[c].idx]] = d

\* the callers that have started their unit of work
Started == {c \in Calls : repo[c].pc # "idle"}

\* C33: when several transactions call UpdateTicketStatuses on the same list of
\* tickets concurrently, with whatever statuses, none deadlocks or is aborted:
\* a transaction that waits for a row lock waits for a running transaction, no
\* set of transactions wait for each other, an error comes from a failure of the
\* store only, and when all have completed every ticket holds one of available,
\* pending, sold (the listed ones all that of the last transaction to commit)
C33_SameListNoDeadlock ==
  (\A c, d \in Started : repo[c].list = repo[d].list) =>
    /\ \A c, d \in Calls : WaitsFor(c, d) => Running(d)
    /\ \A S \in (SUBSET Calls) \ {{}} : \E c \in S : \A d \in S : ~WaitsFor(c, d)
    /\ faults = 0 => \A c \in Calls : repo[c].err = ""
    /\ (\A c \in Calls : repo[c].pc = "done") =>
         /\ \A t \in TicketIDs : db_tickets[t].status \in TicketStatuses
         /\ faults = 0 =>
              \E c \in Calls : \A t \in Range(repo[c].list) : db_tickets[t].status = repo[c].status

\* two transactions update the same list of three tickets with different
\* statuses: one holds the lock of the first ticket, the other waits for it
C33_Witness ==
  /\ repo[1].list = <<1, 2, 3>> /\ repo[2].list = <<1, 2, 3>>
  /\ repo[1].status # repo[2].status
  /\ \E c, d \in Calls : WaitsFor(c, d) /\ repo[c].idx = 1 /\ repo[d].idx > 1

\* call c waits in UpdateTicketStatuses for a row lock that the transaction of d holds
CallWaitsFor(c, d) ==
  /\ c # d
  /\ pc[c] = "update"
  /\ rowLock[TicketAt(c, tickets[c], updIdx[c])] = d

\* C35: under fair scheduling every call that has arrived eventually returns,
\* with an order or with an error, and no calls wait for each other's ticket
\* row locks (each takes them in ascending order of ticket id)
C35_CallsTerminate ==
  /\ \A c \in Calls : (pc[c] # "idle") ~> (pc[c] = "done")
  /\ [](\A S \in (SUBSET Calls) \ {{}} : \E c \in S : \A d \in S : ~CallWaitsFor(c, d))
  /\ [](\A c \in Calls : \A i \in 1..(Len(tickets[c]) - 1) : tickets[c][i] < tickets[c][i + 1])

\* a call waits for the lock of a ticket that another call, which selected the
\* same tickets, has updated and not yet committed
C35_Witness ==
  \E c, d \in Calls :
    /\ CallWaitsFor(c, d)
    /\ Len(tickets[c]) >= 2
    /\ tickets[c] = tickets[d]
    /\ pc[d] = "update"

====
